---- MODULE Spec2Model ----
(***************************************************************************)
(* Model of the rendering pipeline of backend/app.py: one API call per     *)
(* behaviour, either render_snippet (scratch directory, compile_latex,     *)
(* pdf_to_png, cleanup) or readiness_report.  External tools are the       *)
(* environment: which of them are installed is fixed in Init, and every    *)
(* invocation of an installed tool may exit zero, exit non-zero or time    *)
(* out; invoking a tool that is not installed raises (FileNotFoundError).  *)
(* The which utility the probes rely on may itself be missing or hang.     *)
(***************************************************************************)
EXTENDS Integers, Sequences, FiniteSets, TLC

\* Largest value of `passes` a request carries in the model.
MaxPasses == 3

\* Number of render_snippet calls in progress at once.
MaxWorkers == 2

Workers == 1..MaxWorkers

\* The identifiers uuid4 can return.
Ids == 1..MaxWorkers

Tools == {"pdflatex", "biber", "bibtex", "pdfcrop", "pdftoppm", "convert", "magick"}

\* Values of the request field passes (an unvalidated JSON integer).
PassValues == (-1)..MaxPasses

\* bib_entries of a request: absent (None), the empty string, or some text.
BibValues == {"absent", "empty", "text"}

VARIABLES
    installed,       \* the tools that exist on the host
    which_host,      \* the which utility of the host: works, missing or hangs
    probe,           \* what a direct call of check_command did and returned
    disk,            \* concurrent calls: scratch directory -> its files, each with its writer
    issued,          \* concurrent calls: the identifiers uuid4 has returned
    workers,         \* concurrent calls: position and temp_id of each call
    pc,              \* position of the call
    req,             \* arguments of render_snippet
    dirExists,       \* TEMP_DIR / temp_id exists on disk
    files,           \* files inside the scratch directory
    i,               \* loop index of compile_latex
    source_pdf,      \* pdf_to_png's source_pdf: "document" or "cropped"
    calls,           \* external tool invocations, in order
    compile_result,  \* what compile_latex returned
    convert_result,  \* what pdf_to_png returned
    result,          \* what render_snippet returned
    report           \* what readiness_report returned

vars == <<installed, which_host, probe, disk, issued, workers, pc, req, dirExists, files, i, source_pdf, calls,
          compile_result, convert_result, result, report>>

NoRequest == [passes |-> 1, bib_entries |-> "absent", use_biblatex |-> FALSE]
NotReturned == [returned |-> FALSE, success |-> FALSE, error |-> "", detail |-> <<>>, has_log |-> FALSE, log |-> <<>>]
NoProbe == [returned |-> FALSE, command |-> "", which |-> "", version_ran |-> FALSE, version |-> "", result |-> FALSE]
NoReport == [returned |-> FALSE, ready |-> FALSE, tools |-> [t \in {} |-> FALSE]]

\* A returned result: error is the fixed part of the error text, detail the
\* text interpolated into it.
Returned(ok, err) == [returned |-> TRUE, success |-> ok, error |-> err, detail |-> <<>>, has_log |-> FALSE, log |-> <<>>]
ReturnedLog(err, text) == [returned |-> TRUE, success |-> FALSE, error |-> err, detail |-> <<>>, has_log |-> TRUE, log |-> text]

\* Python truthiness of bib_entries: None and "" are falsy.
Truthy(b) == b = "text"

----------------------------------------------------------------------------
\* The probes and invocations of external commands.

\* The states of the which utility.
WhichStates == {"works", "missing", "hangs"}

\* subprocess.run(["which", command]): outcome of the presence probe.
WhichProbe(command) ==
    CASE which_host = "missing" -> "noexec"
      [] which_host = "hangs" -> "timeout"
      [] OTHER -> IF command \in installed THEN "zero" ELSE "nonzero"

\* subprocess.run([command, "--version"]): the execution probe.
VersionProbe(command) == IF command \in installed THEN {"zero", "nonzero", "timeout"} ELSE {"noexec"}

\* check_command on given probe outcomes: the second probe runs only after a
\* non-zero exit of the first; any exception of either probe gives False.
CheckCommand(w, v) ==
    IF w = "zero" THEN TRUE
    ELSE IF w = "nonzero" THEN v = "zero"
    ELSE FALSE

\* Whether check_command gets to its execution probe: only past a presence
\* probe that returned, with a non-zero status.
SecondProbeRuns(w) == w = "nonzero"

\* The values check_command(command) can return on this host.
check_command(command) ==
    {CheckCommand(WhichProbe(command), v) : v \in VersionProbe(command)}

\* find_command: the resolved path when which exits zero, else the bare name.
\* Either way the same executable is run.
find_command(command) ==
    [name |-> command, resolved |-> (WhichProbe(command) = "zero")]

\* Outcomes of subprocess.run(cmd, timeout=...) for a command line.
RunOutcomes(cmd) ==
    IF cmd.name \in installed THEN {"zero", "nonzero", "timeout"} ELSE {"noexec"}

Invocation(step, cmd, rc) == [step |-> step, tool |-> cmd.name, rc |-> rc]

\* Captured output of compiler pass k, a text of one token that names the
\* stream and the pass.
Stdout(k) == << <<"stdout", k>> >>
Stderr(k) == << <<"stderr", k>> >>

\* The text "\n".
Newline == << <<"newline">> >>

----------------------------------------------------------------------------
Init ==
    /\ installed \in SUBSET Tools
    /\ which_host \in WhichStates
    /\ probe = NoProbe
    /\ disk = <<>>
    /\ issued = {}
    /\ workers = [w \in Workers |-> [pc |-> "idle", temp_id |-> 0]]
    /\ pc = "idle"
    /\ req = NoRequest
    /\ dirExists = FALSE
    /\ files = {}
    /\ i = 0
    /\ source_pdf = "document"
    /\ calls = <<>>
    /\ compile_result = NotReturned
    /\ convert_result = NotReturned
    /\ result = NotReturned
    /\ report = NoReport

----------------------------------------------------------------------------
\* render_snippet, up to the call of compile_latex.

\* The bibliography file written for every request.
WrittenFilesAlways(r) == {"document.tex", "references.bib"}

\* Files written into the scratch directory before compiling: the source, and
\* the bibliography file when bib_entries is truthy.
WrittenFiles(r) ==
    {"document.tex"} \cup (IF Truthy(r.bib_entries) THEN {"references.bib"} ELSE {})

\* The broad except of render_snippet.
UnexpectedError == Returned(FALSE, "Unexpected error")

\* uuid4, mkdir, both writes succeed: compile_latex is entered.
RenderSetupOk(r) ==
    /\ req' = r
    /\ dirExists' = TRUE
    /\ files' = WrittenFiles(r)
    /\ pc' = "compile"
    /\ i' = 0
    /\ UNCHANGED <<disk, issued, workers, installed, which_host, probe, source_pdf, calls, compile_result, convert_result, result, report>>

\* mkdir succeeds and writing document.tex raises (OSError).
RenderSetupRaises(r) ==
    /\ req' = r
    /\ dirExists' = TRUE
    /\ files' = {}
    /\ result' = UnexpectedError
    /\ pc' = "done"
    /\ UNCHANGED <<disk, issued, workers, installed, which_host, probe, i, source_pdf, calls, compile_result, convert_result, report>>

RenderSetup ==
    /\ pc = "idle"
    /\ \E p \in PassValues, b \in BibValues, u \in BOOLEAN :
         LET r == [passes |-> p, bib_entries |-> b, use_biblatex |-> u]
         IN  RenderSetupOk(r) \/ RenderSetupRaises(r)

----------------------------------------------------------------------------
\* compile_latex.

\* What render_snippet returns when compile_latex did not succeed.
RenderCompileFailure(c) ==
    [returned |-> TRUE, success |-> FALSE, error |-> c.error, detail |-> c.detail, has_log |-> TRUE, log |-> c.log]

CompileReturnsFailure(c) ==
    /\ compile_result' = c
    /\ result' = RenderCompileFailure(c)
    /\ pc' = "done"
    /\ UNCHANGED <<i, files>>

\* The log with the output of the earlier passes in front.
FailureLogAccumulated(k) ==
    LET RECURSIVE Acc(_)
        Acc(j) == IF j < 0 THEN <<>> ELSE Acc(j - 1) \o Stdout(j) \o Newline \o Stderr(j)
    IN  Acc(k)

\* The log of a failed pass: result.stdout + "\n" + result.stderr.
FailureLog(k) == Stdout(k) \o Newline \o Stderr(k)

\* The bibliography tool after every pass.
NeedsBibEveryPass == "references.bib" \in files

\* The bibliography tool after the second pass instead of the first.
NeedsBibAfterPassOne == i = 1 /\ "references.bib" \in files

\* The condition under which the bibliography tool runs after a pass.
NeedsBib == i = 0 /\ "references.bib" \in files

\* A failed pass that does not end the loop.
PassNonZeroContinues ==
    /\ pc' = "compile"
    /\ i' = i + 1
    /\ UNCHANGED <<files, compile_result, result>>

\* returncode != 0 of a compiler pass.
PassNonZero ==
    CompileReturnsFailure(ReturnedLog("LaTeX compilation failed", FailureLog(i)))

\* returncode == 0 of a compiler pass.
PassZero ==
    /\ files' = files \cup {"document.pdf"}
    /\ IF NeedsBib
         THEN pc' = "bib" /\ i' = i
         ELSE pc' = "compile" /\ i' = i + 1
    /\ UNCHANGED <<compile_result, result>>

CompileTimeout == CompileReturnsFailure(Returned(FALSE, "LaTeX compilation timed out"))
CompileError == CompileReturnsFailure(Returned(FALSE, "Compilation error"))

\* A loop that runs one pass too many.
InRangeInclusive == i <= req.passes

\* for i in range(passes): whether the loop has another iteration.
InRange == i < req.passes

\* One iteration of the loop: the compiler invocation and what follows it.
CompilePass ==
    /\ pc = "compile"
    /\ InRange
    /\ LET cmd == find_command("pdflatex") IN
       \E rc \in RunOutcomes(cmd) :
         /\ calls' = Append(calls, Invocation("compile", cmd, rc))
         /\ CASE rc = "zero" -> PassZero
              [] rc = "nonzero" -> PassNonZero
              [] rc = "timeout" -> CompileTimeout
              [] rc = "noexec" -> CompileError
    /\ UNCHANGED <<disk, issued, workers, installed, which_host, probe, req, dirExists, source_pdf, convert_result, report>>

\* The bibliography engine selected by use_biblatex.
BibEngine == IF req.use_biblatex THEN "biber" ELSE "bibtex"

\* A non-zero exit of the bibliography tool treated as a failure.
BibReturnedChecked(rc) ==
    IF rc = "nonzero"
      THEN CompileError
      ELSE /\ pc' = "compile"
           /\ i' = i + 1
           /\ UNCHANGED <<files, compile_result, result>>

\* The bibliography tool returned: its exit status rc is not looked at.
BibReturned(rc) ==
    /\ pc' = "compile"
    /\ i' = i + 1
    /\ UNCHANGED <<files, compile_result, result>>

\* The bibliography invocation after pass 0.
CompileBib ==
    /\ pc = "bib"
    /\ LET cmd == find_command(BibEngine) IN
       \E rc \in RunOutcomes(cmd) :
         /\ calls' = Append(calls, Invocation("bib", cmd, rc))
         /\ CASE rc \in {"zero", "nonzero"} -> BibReturned(rc)
              [] rc = "timeout" -> CompileTimeout
              [] rc = "noexec" -> CompileError
    /\ UNCHANGED <<disk, issued, workers, installed, which_host, probe, req, dirExists, source_pdf, convert_result, report>>

\* The loop is over: compile_latex returns success and render_snippet goes on
\* to pdf_to_png.
CompileReturn ==
    /\ pc = "compile"
    /\ ~InRange
    /\ compile_result' = Returned(TRUE, "")
    /\ pc' = "crop"
    /\ UNCHANGED <<disk, issued, workers, installed, which_host, probe, req, dirExists, files, i, source_pdf, calls, convert_result, result, report>>

----------------------------------------------------------------------------
\* pdf_to_png, as render_snippet calls it (dpi=300, crop=True).

crop == TRUE

\* The file a source_pdf value names.
SourceFile(src) == IF src = "cropped" THEN "document-cropped.pdf" ELSE "document.pdf"

\* Outcomes of a tool that reads `input`: a missing input makes an installed
\* tool exit non-zero.
RunOutcomesOn(cmd, input) ==
    IF cmd.name \notin installed THEN {"noexec"}
    ELSE IF input \notin files THEN {"nonzero"}
    ELSE {"zero", "nonzero", "timeout"}

\* What render_snippet returns when pdf_to_png did not succeed.
RenderConvertFailure(c) == [Returned(FALSE, c.error) EXCEPT !.detail = c.detail]

ConvertReturnsFailure(c) ==
    /\ convert_result' = c
    /\ result' = RenderConvertFailure(c)
    /\ pc' = "done"

\* A timeout reported like a failed rasterization.
ConvertTimeoutAsFailure == ConvertReturnsFailure(Returned(FALSE, "Failed to convert PDF to PNG"))

\* An exception that leaves pdf_to_png and is caught by render_snippet.
ConvertErrorEscapes ==
    /\ result' = UnexpectedError
    /\ pc' = "done"
    /\ UNCHANGED convert_result

ConvertTimeout == ConvertReturnsFailure(Returned(FALSE, "PDF conversion timed out"))
ConvertError == ConvertReturnsFailure(Returned(FALSE, "Conversion error"))

\* The rest of the error text of an exhausted conversion, f"pdftoppm result:
\* {result.stderr}, convert not available.", where result is the outcome of
\* the invocation inv that was assigned to it last.
FailureDiagnostic(inv) ==
    << <<"text", "pdftoppm result: ">>, <<"stderr", inv.tool>>,
       <<"text", ", convert not available.">> >>

\* Both rasterizers exited non-zero: result holds the fallback's outcome, the
\* last invocation made.
ConvertFailed ==
    ConvertReturnsFailure(
        [Returned(FALSE, "Failed to convert PDF to PNG")
            EXCEPT !.detail = FailureDiagnostic(calls'[Len(calls')])])

\* pdf_to_png returns success; render_snippet goes on to read the image.
ConvertReturnsSuccess ==
    /\ convert_result' = Returned(TRUE, "")
    /\ pc' = "read"
    /\ UNCHANGED result

\* pdfcrop returned: the cropped file, when it exists, becomes the source.
CropReturned(rc) ==
    /\ files' = (IF rc = "zero" THEN files \cup {"document-cropped.pdf"} ELSE files)
    /\ source_pdf' = (IF "document-cropped.pdf" \in files' THEN "cropped" ELSE source_pdf)
    /\ pc' = "pdftoppm"
    /\ UNCHANGED <<convert_result, result>>

\* The optional vector crop before rasterizing.
ConvertCrop ==
    /\ pc = "crop"
    /\ \E ok \in check_command("pdfcrop") :
         IF crop /\ ok
           THEN LET cmd == find_command("pdfcrop") IN
                \E rc \in RunOutcomesOn(cmd, "document.pdf") :
                  /\ calls' = Append(calls, Invocation("crop", cmd, rc))
                  /\ CASE rc \in {"zero", "nonzero"} -> CropReturned(rc)
                       [] rc = "timeout" ->
                            ConvertTimeout /\ UNCHANGED <<files, source_pdf>>
                       [] rc = "noexec" ->
                            ConvertError /\ UNCHANGED <<files, source_pdf>>
           ELSE /\ pc' = "pdftoppm"
                /\ UNCHANGED <<files, source_pdf, calls, convert_result, result>>
    /\ UNCHANGED <<disk, issued, workers, installed, which_host, probe, req, dirExists, i, compile_result, report>>

\* The pixel trim follows a rasterization of the uncropped document.
PrimaryNeedsTrim == crop /\ source_pdf # "cropped"

\* A zero exit of pdftoppm that does not return and falls into the fallback.
PrimaryZeroFallsThrough ==
    /\ files' = files \cup {"document.png"}
    /\ pc' = "fallback"
    /\ UNCHANGED <<convert_result, result>>

\* returncode == 0 of pdftoppm.
PrimaryZero ==
    /\ files' = files \cup {"document.png"}
    /\ IF PrimaryNeedsTrim
         THEN pc' = "trim" /\ UNCHANGED <<convert_result, result>>
         ELSE ConvertReturnsSuccess

\* The primary rasterizer.
ConvertPrimary ==
    /\ pc = "pdftoppm"
    /\ LET cmd == find_command("pdftoppm") IN
       \E rc \in RunOutcomesOn(cmd, SourceFile(source_pdf)) :
         /\ calls' = Append(calls, Invocation("raster", cmd, rc))
         /\ CASE rc = "zero" -> PrimaryZero
              [] rc = "nonzero" ->
                   pc' = "fallback" /\ UNCHANGED <<files, convert_result, result>>
              [] rc = "timeout" -> ConvertTimeout /\ UNCHANGED files
              [] rc = "noexec" -> ConvertError /\ UNCHANGED files
    /\ UNCHANGED <<disk, issued, workers, installed, which_host, probe, req, dirExists, i, source_pdf, compile_result, report>>

\* convert_cmd: convert when check_command finds it, else magick.
FallbackCommand(ok) == IF ok THEN find_command("convert") ELSE find_command("magick")

\* returncode == 0 of the fallback tool; a multi-page document makes it write
\* numbered files instead of document.png.
FallbackZero(written) ==
    /\ files' = (IF written THEN files \cup {"document.png"} ELSE files)
    /\ IF crop
         THEN pc' = "trim" /\ UNCHANGED <<convert_result, result>>
         ELSE ConvertReturnsSuccess

\* The fallback rasterizer (ImageMagick).
ConvertFallback ==
    /\ pc = "fallback"
    /\ \E ok \in check_command("convert") :
       LET cmd == FallbackCommand(ok) IN
       \E rc \in RunOutcomesOn(cmd, SourceFile(source_pdf)) :
         /\ calls' = Append(calls, Invocation("fallback", cmd, rc))
         /\ CASE rc = "zero" -> \E written \in BOOLEAN : FallbackZero(written)
              [] rc = "nonzero" -> ConvertFailed /\ UNCHANGED files
              [] rc = "timeout" -> ConvertTimeout /\ UNCHANGED files
              [] rc = "noexec" -> ConvertError /\ UNCHANGED files
    /\ UNCHANGED <<disk, issued, workers, installed, which_host, probe, req, dirExists, i, source_pdf, compile_result, report>>

\* The tools _trim_png_inplace would run: magick first, then convert, else none.
TrimTools ==
    {IF m THEN "magick" ELSE IF c THEN "convert" ELSE "none" :
        m \in check_command("magick"), c \in check_command("convert")}

\* _trim_png_inplace and the return of success that follows it; whatever the
\* trim does (exit status, timeout, exception) is swallowed.
ConvertTrim ==
    /\ pc = "trim"
    /\ \E t \in TrimTools :
         IF t = "none"
           THEN UNCHANGED calls
           ELSE LET cmd == find_command(t) IN
                \E rc \in RunOutcomesOn(cmd, "document.png") :
                  calls' = Append(calls, Invocation("trim", cmd, rc))
    /\ ConvertReturnsSuccess
    /\ UNCHANGED <<disk, issued, workers, installed, which_host, probe, req, dirExists, files, i, source_pdf, compile_result, report>>

----------------------------------------------------------------------------
\* render_snippet, after pdf_to_png succeeded.

\* Reading document.png, then shutil.rmtree and the success result; a missing
\* image raises and is caught by the broad except.
RenderRead ==
    /\ pc = "read"
    /\ IF "document.png" \in files
         THEN /\ dirExists' = FALSE
              /\ files' = {}
              /\ result' = Returned(TRUE, "")
         ELSE /\ result' = UnexpectedError
              /\ UNCHANGED <<dirExists, files>>
    /\ pc' = "done"
    /\ UNCHANGED <<disk, issued, workers, installed, which_host, probe, req, i, source_pdf, calls, compile_result, convert_result, report>>

----------------------------------------------------------------------------
\* readiness_report.

ReportedTools == {"pdflatex", "biber", "bibtex", "pdftoppm", "convert", "pdfcrop"}

\* Readiness that needs both rasterizers.
ReadyBothRasterizers(tools) == tools["pdflatex"] /\ tools["pdftoppm"] /\ tools["convert"]

\* The "ready" entry computed from the tools mapping.
Ready(tools) == tools["pdflatex"] /\ (tools["pdftoppm"] \/ tools["convert"])

\* The tools mappings readiness_report can build on this host.
ToolMaps ==
    {t \in [ReportedTools -> BOOLEAN] :
        /\ \A c \in ReportedTools \ {"convert"} : t[c] \in check_command(c)
        /\ \E a \in check_command("convert"), b \in check_command("magick") :
             t["convert"] = (a \/ b)}

ReadinessReport ==
    /\ pc = "idle"
    /\ \E t \in ToolMaps :
         report' = [returned |-> TRUE, ready |-> Ready(t), tools |-> t]
    /\ pc' = "reported"
    /\ UNCHANGED <<disk, issued, workers, installed, which_host, probe, req, dirExists, files, i, source_pdf, calls,
                   compile_result, convert_result, result>>

----------------------------------------------------------------------------
\* check_command, called on its own.

CheckCommandCall ==
    /\ pc = "idle"
    /\ \E command \in Tools : \E v \in VersionProbe(command) :
         LET w == WhichProbe(command) IN
         probe' = [returned |-> TRUE, command |-> command, which |-> w,
                   version_ran |-> SecondProbeRuns(w),
                   version |-> (IF SecondProbeRuns(w) THEN v ELSE ""),
                   result |-> CheckCommand(w, v)]
    /\ pc' = "probed"
    /\ UNCHANGED <<disk, issued, workers, installed, which_host, req, dirExists, files, i, source_pdf, calls,
                   compile_result, convert_result, result, report>>

----------------------------------------------------------------------------
\* Concurrent calls of render_snippet (the server handles requests in
\* threads): what each call does to the directories under TEMP_DIR.

\* The variables of the single call, which the concurrent calls leave alone.
single == <<installed, which_host, probe, pc, req, dirExists, files, i, source_pdf,
            calls, compile_result, convert_result, result, report>>

\* An identifier that may have been returned before.
uuid4Repeating == Ids

\* uuid.uuid4(): a random 122-bit identifier, taken never to repeat.
uuid4 == Ids \ issued

\* The files of directory d with file `name` written (created or overwritten)
\* by call w.
WriteFile(d, name, w) == {f \in disk[d] : f[1] # name} \cup {<<name, w>>}

\* temp_id = uuid4(); temp_path.mkdir(exist_ok=True).
Allocate(w) ==
    /\ workers[w].pc = "idle"
    /\ \E id \in uuid4 :
         /\ issued' = issued \cup {id}
         /\ disk' = (IF id \in DOMAIN disk THEN disk
                     ELSE [d \in DOMAIN disk \cup {id} |-> IF d = id THEN {} ELSE disk[d]])
         /\ workers' = [workers EXCEPT ![w] = [pc |-> "write", temp_id |-> id]]
    /\ UNCHANGED single

\* The writes of document.tex and, for truthy bib_entries, references.bib;
\* they raise when the directory is gone, and the broad except returns.
WriteSources(w) ==
    /\ workers[w].pc = "write"
    /\ LET d == workers[w].temp_id IN
       IF d \in DOMAIN disk
         THEN /\ \E b \in BOOLEAN :
                   LET withTex == [disk EXCEPT ![d] = WriteFile(d, "document.tex", w)]
                   IN  disk' = (IF b THEN [withTex EXCEPT ![d] =
                                            {f \in withTex[d] : f[1] # "references.bib"}
                                              \cup {<<"references.bib", w>>}]
                                     ELSE withTex)
              /\ workers' = [workers EXCEPT ![w].pc = "compile"]
         ELSE /\ workers' = [workers EXCEPT ![w].pc = "done"]
              /\ UNCHANGED disk
    /\ UNCHANGED <<issued, single>>

\* compile_latex with cwd=temp_path: on success document.pdf is in the
\* directory, on failure render_snippet returns and leaves the directory.
CompileIn(w) ==
    /\ workers[w].pc = "compile"
    /\ LET d == workers[w].temp_id IN
       \/ /\ d \in DOMAIN disk
          /\ disk' = [disk EXCEPT ![d] = WriteFile(d, "document.pdf", w)]
          /\ workers' = [workers EXCEPT ![w].pc = "convert"]
       \/ /\ workers' = [workers EXCEPT ![w].pc = "done"]
          /\ UNCHANGED disk
    /\ UNCHANGED <<issued, single>>

\* pdf_to_png on temp_path / "document.pdf": on success document.png is in
\* the directory, on failure render_snippet returns and leaves the directory.
ConvertIn(w) ==
    /\ workers[w].pc = "convert"
    /\ LET d == workers[w].temp_id IN
       \/ /\ d \in DOMAIN disk
          /\ disk' = [disk EXCEPT ![d] = WriteFile(d, "document.png", w)]
          /\ workers' = [workers EXCEPT ![w].pc = "read"]
       \/ /\ workers' = [workers EXCEPT ![w].pc = "done"]
          /\ UNCHANGED disk
    /\ UNCHANGED <<issued, single>>

\* Reading document.png and shutil.rmtree(temp_path); either raises when the
\* directory is gone, and the broad except returns.
ReadAndRemove(w) ==
    /\ workers[w].pc = "read"
    /\ LET d == workers[w].temp_id IN
       disk' = [e \in DOMAIN disk \ {d} |-> disk[e]]
    /\ workers' = [workers EXCEPT ![w].pc = "done"]
    /\ UNCHANGED <<issued, single>>

InitConcurrent ==
    /\ Init
    /\ installed = Tools
    /\ which_host = "works"

NextConcurrent ==
    \E w \in Workers :
        \/ Allocate(w)
        \/ WriteSources(w)
        \/ CompileIn(w)
        \/ ConvertIn(w)
        \/ ReadAndRemove(w)

SpecConcurrent == InitConcurrent /\ [][NextConcurrent]_vars

----------------------------------------------------------------------------
Next ==
    \/ RenderSetup
    \/ CompilePass
    \/ CompileBib
    \/ CompileReturn
    \/ ConvertCrop
    \/ ConvertPrimary
    \/ ConvertFallback
    \/ ConvertTrim
    \/ RenderRead
    \/ ReadinessReport
    \/ CheckCommandCall

Spec == Init /\ [][Next]_vars

----------------------------------------------------------------------------
\* Properties.

\* Positions in calls of the invocations of one step.
Positions(step) == {k \in DOMAIN calls : calls[k].step = step}

CompileCount == Cardinality(Positions("compile"))
BibCount == Cardinality(Positions("bib"))

\* The last invocation made so far is one of `step`.
LastIs(step) == calls # <<>> /\ calls[Len(calls)].step = step

LastRc == calls[Len(calls)].rc

\* C1: once render_snippet has returned, whatever the outcome, the scratch
\* directory of the call no longer exists.
C1_ScratchRemovedOnReturn == result.returned => ~dirExists

\* C2: pdftoppm is not installed, so its invocation cannot be executed, and
\* convert or magick is installed: pdf_to_png has invoked the fallback tool when
\* it returns, and returns success when that invocation exited zero.
C2_FallbackWhenPrimaryMissing ==
    ( /\ convert_result.returned
      /\ "document.pdf" \in files
      /\ \E k \in Positions("raster") : calls[k].rc = "noexec"
      /\ {"convert", "magick"} \cap installed # {} )
    => \E k \in Positions("fallback") :
         calls[k].rc = "zero" => convert_result.success

\* C3: a compiler pass that exits non-zero is the last invocation compile_latex
\* makes: compile_latex has returned a failure, every earlier pass exited zero
\* (no retry), and with k the index of the failed pass exactly k+1 compiler
\* invocations have happened.
C3_FirstFailureEnds ==
    \A k \in Positions("compile") :
        calls[k].rc = "nonzero" =>
            /\ k = Len(calls)
            /\ compile_result.returned /\ ~compile_result.success
            /\ result.returned /\ ~result.success
            /\ \A j \in Positions("compile") : j < k => calls[j].rc = "zero"
            /\ CompileCount = i + 1

C3_Witness ==
    /\ LastIs("compile") /\ LastRc = "nonzero"
    /\ i = 2 /\ BibCount = 1 /\ req.passes = 3

\* C4: the bibliography tool is invoked at most once, and its invocation is
\* the second invocation of the run: it follows the first compiler pass, which
\* exited zero, and every other compiler pass comes after it.
C4_BibOnceAfterPassZero ==
    /\ BibCount <= 1
    /\ \A k \in Positions("bib") :
         /\ k = 2
         /\ calls[1].step = "compile" /\ calls[1].rc = "zero"
         /\ \A j \in Positions("compile") : j # 1 => j > k

C4_Witness ==
    /\ BibCount = 1 /\ CompileCount = 3 /\ compile_result.success

\* C5: a request that supplies bib_entries and has passes >= 2 and whose
\* compiler pass 1 has been invoked has had exactly one bibliography invocation,
\* between pass 0 and pass 1.
C5_BibExactlyOnceWhenSupplied ==
    ( /\ req.bib_entries # "absent"
      /\ req.passes >= 2
      /\ CompileCount >= 2 )
    => /\ BibCount = 1
       /\ \A k \in Positions("bib") : k = 2

\* C5 amended: a request with non-empty bib_entries and passes >= 2 whose pass 0
\* exited zero has had, once pass 1 is invoked or compile_latex has returned,
\* exactly one bibliography invocation, made right after pass 0.
C5_BibOnceWhenWritten ==
    ( /\ req.bib_entries = "text"
      /\ req.passes >= 2
      /\ calls # <<>> /\ calls[1].step = "compile" /\ calls[1].rc = "zero"
      /\ (CompileCount >= 2 \/ compile_result.returned) )
    => /\ BibCount = 1
       /\ Positions("bib") = {2}

C5_Witness ==
    /\ req.bib_entries = "text" /\ req.passes = 3
    /\ CompileCount = 3 /\ BibCount = 1
    /\ compile_result.success

\* C6: an exit status of the bibliography tool, zero or not, leaves the loop
\* running, and the result of compile_latex is then decided by the compiler
\* passes alone: success exactly when all req.passes passes ran and exited zero.
C6_BibExitStatusIgnored ==
    \A k \in Positions("bib") :
        calls[k].rc \in {"zero", "nonzero"} =>
            /\ (k = Len(calls) /\ ~compile_result.returned => pc = "compile" /\ i = 1)
            /\ (compile_result.returned =>
                  (compile_result.success <=>
                     /\ CompileCount = req.passes
                     /\ \A j \in Positions("compile") : calls[j].rc = "zero"))
            /\ (compile_result.returned /\ req.passes >= 2 => CompileCount >= 2)

C6_Witness ==
    /\ \E k \in Positions("bib") : calls[k].rc = "nonzero"
    /\ compile_result.returned /\ compile_result.success
    /\ CompileCount = 3

\* C7: no failure of the bibliography engine (not installed, timed out,
\* non-zero exit) makes compile_latex return: after the bibliography invocation
\* compile_latex is still running.
C7_BibFailureAbsorbed ==
    LastIs("bib") => ~compile_result.returned

\* C8: no failure of pdfcrop (non-zero exit, timeout, no cropped file) makes
\* pdf_to_png return: after the crop invocation pdf_to_png goes on to rasterize.
C8_CropFailureNotFatal ==
    LastIs("crop") => ~convert_result.returned /\ pc = "pdftoppm"

\* C9 as stated: the log returned for a failure at pass k holds the output of
\* every pass from 0 to k.
C9_LogHasEveryPass ==
    (LastIs("compile") /\ LastRc = "nonzero") =>
        \A j \in 0..(CompileCount - 1) :
            /\ \E n \in DOMAIN compile_result.log : compile_result.log[n] = <<"stdout", j>>
            /\ \E n \in DOMAIN compile_result.log : compile_result.log[n] = <<"stderr", j>>

\* C9 amended: the log returned for a failure at pass k is the standard output
\* of pass k, a newline and the standard error of pass k, and nothing of the
\* earlier passes; render_snippet passes it on unchanged.
C9_LogOfFailingPassOnly ==
    (LastIs("compile") /\ LastRc = "nonzero") =>
        LET k == CompileCount - 1 IN
        /\ compile_result.has_log
        /\ compile_result.log = << <<"stdout", k>>, <<"newline">>, <<"stderr", k>> >>
        /\ result.log = compile_result.log

C9_Witness ==
    /\ LastIs("compile") /\ LastRc = "nonzero"
    /\ CompileCount = 3
    /\ compile_result.has_log

\* C10: ready is true exactly when pdflatex is available and one of pdftoppm,
\* convert, magick is; biber, bibtex and pdfcrop do not matter.  A tool is
\* available when it is installed and the which utility finds it.
C10_ReadyIff ==
    report.returned =>
        (report.ready <=>
            /\ which_host = "works"
            /\ "pdflatex" \in installed
            /\ {"pdftoppm", "convert", "magick"} \cap installed # {})

C10_Witness ==
    /\ report.returned /\ report.ready
    /\ installed = {"pdflatex", "magick"}

\* C11: on a host with neither pdftoppm nor convert nor magick, a call that
\* got as far as pdf_to_png ends with pdf_to_png having returned a failure
\* record with an error text, which render_snippet returns as its own failure.
C11_NoRasterizerStructuredFailure ==
    ( /\ {"pdftoppm", "convert", "magick"} \cap installed = {}
      /\ compile_result.success
      /\ pc = "done" )
    => /\ convert_result.returned /\ ~convert_result.success
       /\ convert_result.error # ""
       /\ result.returned /\ ~result.success
       /\ result.error = convert_result.error

C11_Witness ==
    /\ {"pdftoppm", "convert", "magick"} \cap installed = {}
    /\ "document.pdf" \in files
    /\ LastIs("raster") /\ LastRc = "noexec"
    /\ pc = "done"

\* C12: a compiler pass or rasterizer invocation that times out is the last
\* invocation of the call (it is not run again) and is reported with the
\* timeout reason of its stage; a non-zero exit that ends the stage is reported
\* with another reason.
C12_TimeoutDistinctNoRetry ==
    /\ \A k \in Positions("compile") :
         /\ calls[k].rc = "timeout" =>
              /\ k = Len(calls)
              /\ compile_result.returned /\ ~compile_result.success
              /\ compile_result.error = "LaTeX compilation timed out"
              /\ result.error = "LaTeX compilation timed out"
         /\ calls[k].rc = "nonzero" =>
              /\ compile_result.error = "LaTeX compilation failed"
              /\ result.error = "LaTeX compilation failed"
    /\ \A k \in Positions("raster") \cup Positions("fallback") :
         /\ calls[k].rc = "timeout" =>
              /\ k = Len(calls)
              /\ convert_result.returned /\ ~convert_result.success
              /\ convert_result.error = "PDF conversion timed out"
              /\ result.error = "PDF conversion timed out"
         /\ (calls[k].rc = "nonzero" /\ k = Len(calls) /\ convert_result.returned) =>
              /\ ~convert_result.success
              /\ convert_result.error = "Failed to convert PDF to PNG"
              /\ result.error # "PDF conversion timed out"

C12_Witness ==
    /\ LastIs("fallback") /\ LastRc = "timeout"
    /\ CompileCount = 2
    /\ pc = "done"

\* C14 as stated: when compilation starts, references.bib exists exactly when
\* the request supplied bib_entries, the empty string included.
C14_BibFileIffSupplied ==
    (pc = "compile" /\ calls = <<>>) =>
        ("references.bib" \in files <=> req.bib_entries # "absent")

\* C14 amended: when compilation starts, references.bib exists exactly when
\* the request supplied a non-empty bib_entries.
C14_BibFileIffNonEmpty ==
    (pc = "compile" /\ calls = <<>>) =>
        ("references.bib" \in files <=> req.bib_entries = "text")

C14_Witness ==
    /\ pc = "compile" /\ calls = <<>>
    /\ req.bib_entries = "empty"
    /\ "references.bib" \notin files /\ "document.tex" \in files

\* C15: without a bibliography file no bibliography tool is ever invoked; with
\* passes = 1 compile_latex returns after exactly one compiler invocation,
\* whatever its outcome; and when it returns success after passes = n >= 1
\* passes, exactly n compiler invocations happened.
C15_InvocationCounts ==
    (req.bib_entries # "text") =>
        /\ BibCount = 0
        /\ (compile_result.returned /\ req.passes = 1 => CompileCount = 1)
        /\ (compile_result.returned /\ compile_result.success /\ req.passes >= 1
              => CompileCount = req.passes)
        /\ CompileCount <= req.passes \/ CompileCount = 0

C15_Witness ==
    /\ req.bib_entries = "absent" /\ req.passes = 3
    /\ compile_result.success /\ CompileCount = 3 /\ BibCount = 0

\* C17: the fallback tool is invoked only after pdftoppm was invoked and exited
\* non-zero; after a rasterization that exited zero no rasterizer is invoked
\* again, and pdf_to_png, once returned, has returned success.
C17_OrderedEarlyExit ==
    /\ \A k \in Positions("fallback") :
         \E j \in Positions("raster") : j < k /\ calls[j].rc = "nonzero"
    /\ Cardinality(Positions("raster")) <= 1
    /\ Cardinality(Positions("fallback")) <= 1
    /\ \A k \in Positions("raster") \cup Positions("fallback") :
         calls[k].rc = "zero" =>
            /\ \A j \in Positions("raster") \cup Positions("fallback") : j <= k
            /\ pc \in {"trim", "read", "done"}
            /\ (convert_result.returned => convert_result.success)
            /\ (pc \in {"read", "done"} => convert_result.returned)

C17_Witness ==
    /\ \E k \in Positions("fallback") : calls[k].rc = "zero"
    /\ convert_result.returned /\ convert_result.success

\* C18: compile_latex returns success only after at least one compiler pass
\* ran, whatever value of passes the request carried.
C18_SuccessNeedsAPass ==
    (compile_result.returned /\ compile_result.success) =>
        /\ CompileCount >= 1
        /\ "document.pdf" \in files \/ pc = "done"

\* C16: the pixel trim is never applied to an image rasterized from the
\* cropped document, and is applied only when the vector crop step did not run.
C16_TrimOnlyWithoutCrop ==
    pc = "trim" => source_pdf # "cropped"

\* C20: when both rasterizers exited non-zero, the text reported as the result
\* of pdftoppm is the error output of the pdftoppm invocation, and the fallback
\* tool, which was invoked, is not reported as not available.
C20_DiagnosticAttribution ==
    ( /\ convert_result.returned
      /\ "document.pdf" \in files
      /\ LastIs("fallback") /\ LastRc = "nonzero" )
    => /\ \E n \in DOMAIN convert_result.detail :
            /\ convert_result.detail[n] = <<"text", "pdftoppm result: ">>
            /\ n + 1 \in DOMAIN convert_result.detail
            /\ convert_result.detail[n + 1] = <<"stderr", "pdftoppm">>
       /\ \A n \in DOMAIN convert_result.detail :
            convert_result.detail[n] # <<"text", ", convert not available.">>

\* C19: a call of check_command returns (never raises), has run the execution
\* probe whenever the presence probe did not exit zero (non-zero exit, timeout,
\* which not executable), and returns true exactly when a probe exited zero.
C19_SecondProbeWheneverInconclusive ==
    (probe.returned /\ probe.command \in installed) =>
        /\ (probe.which # "zero" => probe.version_ran)
        /\ (probe.result <=> (probe.which = "zero" \/ probe.version = "zero"))

\* The calls that hold a scratch directory: allocated and not yet returned.
InProgress == {w \in Workers : workers[w].pc \in {"write", "compile", "convert", "read"}}

\* C13: two calls in progress at the same time have different scratch
\* directories, the directory of a call in progress exists, and every file in
\* it was written by that call: no call has overwritten or removed a file of
\* another.
C13_ScratchDirsDisjoint ==
    /\ \A v, w \in InProgress : v # w => workers[v].temp_id # workers[w].temp_id
    /\ \A w \in InProgress :
         /\ workers[w].temp_id \in DOMAIN disk
         /\ \A f \in disk[workers[w].temp_id] : f[2] = w
         /\ workers[w].pc \in {"compile", "convert", "read"} =>
              <<"document.tex", w>> \in disk[workers[w].temp_id]
         /\ workers[w].pc = "read" =>
              <<"document.png", w>> \in disk[workers[w].temp_id]

C13_Witness ==
    /\ workers[1].pc = "read" /\ workers[2].pc = "convert"
    /\ \A w \in {1, 2} : <<"document.pdf", w>> \in disk[workers[w].temp_id]

====
